---- MODULE Spec2Model ----
(***************************************************************************)
(* EmpowerGRID: milestone-gated escrow (programs/empower_grid/src/lib.rs). *)
(*                                                                         *)
(* Every instruction is one action.  An action first runs the account      *)
(* validation that the instruction's #[derive(Accounts)] struct declares   *)
(* (Signer, init, has_one, seeds), then the handler, statement by          *)
(* statement, on copies of the accounts.  The copies are written back only *)
(* when the handler returns Ok(()): an instruction that returns Err makes  *)
(* the runtime discard every account change of the transaction.            *)
(*                                                                         *)
(* Widths: u64 is scaled to 0..U64Max (checked_add fails above U64Max).    *)
(* u8 keeps its real width (index + 1 at lib.rs:95 overflows at 255).      *)
(***************************************************************************)
EXTENDS Integers, FiniteSets, Sequences, TLC

\* ------------------------------------------------------------------------
\* Bounds
\* ------------------------------------------------------------------------

\* u64::MAX, scaled
U64Max == 3

\* u8::MAX (the width of Milestone::index and Project::num_milestones)
U8Max == 255

\* name.len() <= 64, description.len() <= 256
MaxNameLen == 64

MaxDescLen == 256

\* ------------------------------------------------------------------------
\* Identities, accounts and input sets
\* ------------------------------------------------------------------------

\* Pubkeys that sign or are named in authority slots
Keys == {"alice", "gov", "gov2", "oracle", "mallory"}

\* the keys callers present in each account slot of the instructions
PlatformSlot == {"alice", "mallory"}

CreatorSlot == {"alice", "gov", "mallory"}

GovernanceNamed == {"gov", "gov2"}

GovernanceSlot == {"gov", "gov2", "mallory"}

OracleSlot == {"oracle", "mallory"}

\* the builds whose outcome differs for `index + 1`: overflow checks on or off
BuildsFor(index) == IF index = U8Max THEN BOOLEAN ELSE {TRUE}

\* System accounts whose lamports the model tracks (funders and payees)
Wallets == {"alice", "payee"}

\* the addresses of the project accounts: the PDA of every value the u64
\* project counter can take (seeds [b"project", state, creator, count])
ProjectIds == 1..U64Max

\* milestone indices the callers use: two ordinary slots and u8::MAX
Indices == {0, 1, U8Max}

\* an address of a milestone account: seeds [b"milestone", project, index]
MilestoneKeys == ProjectIds \X Indices

NoKey == "none"

\* [0u8; 32] and two other 32-byte roots
ZeroRoot == "root0"

Roots == {"rootA", "rootB"}

\* Option<[u8; 32]>::None
NoRoot == "None"

\* Option<u64>::None, the result of a checked operation that overflowed
None == 0 - 1

\* the amounts funders try: 0 (invalid), a part, the whole of u64
FundAmounts == {0, 1, U64Max}

\* payout amounts of milestones
PayoutAmounts == {1, 2}

\* the metric target of milestones: the largest total but one
Target == U64Max - 1

Targets == {Target}

\* metric deltas the oracle submits: nothing, or a whole target at once
Deltas == {0, Target}

\* who deploys the program and becomes the platform authority
Deployers == {"alice"}

\* who creates projects
Creators == {"alice"}

\* the governance and oracle authorities projects are created with
Governors == {"gov"}

Oracles == {"oracle"}

\* the keys set_project_authority rotates to
NewGovernors == {"gov", "gov2"}

\* payees of milestones
Payees == {"payee"}

\* name and description lengths: at the limit and one past it
NameLens == {MaxNameLen, MaxNameLen + 1}

DescLens == {MaxDescLen, MaxDescLen + 1}

\* lamports of the wallets before the first instruction
InitialLamports == [w \in Wallets |-> IF w = "alice" THEN U64Max ELSE U64Max - 1]

VARIABLES
    state,          \* the State account (the registry); exists = FALSE before initialize
    projects,       \* ProjectIds -> Project account
    milestones,     \* MilestoneKeys -> Milestone account
    vault_lamports, \* ProjectIds -> lamports of the project's Vault account
    lamports,       \* Wallets -> lamports
    total_funded,   \* history: sum of the amounts of successful fund_project per project
    total_released, \* history: lamports debited from the vault for each milestone
    release_count,  \* history: successful release_milestone calls per milestone
    contract_version, \* the ContractVersion account (upgrade.rs:19-43)
    migration,      \* the MigrationState account (upgrade.rs:102-133)
    starts_pending  \* history: start_upgrade calls since the descriptor was last
                    \* idle, counted up to 2

\* the accounts of the escrow program and their history
escrow_vars == <<state, projects, milestones, vault_lamports, lamports,
                 total_funded, total_released, release_count>>

\* the accounts of the upgrade subsystem
upgrade_vars == <<contract_version, migration, starts_pending>>

vars == <<state, projects, milestones, vault_lamports, lamports,
          total_funded, total_released, release_count, contract_version, migration,
          starts_pending>>

\* ------------------------------------------------------------------------
\* Account data
\* ------------------------------------------------------------------------

\* an address no account was created at
NoState == [exists |-> FALSE, authority |-> NoKey, project_count |-> 0]

NoProject ==
    [exists |-> FALSE, id |-> 0, creator |-> NoKey, governance_authority |-> NoKey,
     oracle_authority |-> NoKey, funded_amount |-> 0, kwh_total |-> 0,
     co2_total |-> 0, last_metrics_root |-> ZeroRoot, num_milestones |-> 0,
     vault |-> 0]

NoMilestone ==
    [exists |-> FALSE, project |-> 0, index |-> 0, amount_lamports |-> 0,
     kwh_target |-> 0, co2_target |-> 0, payee |-> NoKey, released |-> FALSE]

\* u64::wrapping_add in place of checked_add
checked_add_wrapping(a, b) == (a + b) % (U64Max + 1)

\* u64::checked_add: None on overflow
checked_add(a, b) == IF a + b > U64Max THEN None ELSE a + b

\* u64::checked_sub: None on underflow
checked_sub(a, b) == IF a < b THEN None ELSE a - b

\* ------------------------------------------------------------------------
\* The result of an instruction
\* ------------------------------------------------------------------------

NoEvent ==
    [name |-> "none", project |-> 0, key |-> NoKey, index |-> 0, amount |-> 0,
     kwh_total |-> 0, co2_total |-> 0]

\* account changes that outlive a failed instruction
Persist_always(err, old, new) == new

\* An instruction's account changes persist only when validation passed and the
\* handler returned Ok(()); on Err the transaction's changes are discarded.
Persist(err, old, new) == IF err = "Ok" THEN new ELSE old

\* the error of an instruction: the account validation's, else the handler's
ErrorOf(v, r) == IF v # "Ok" THEN v ELSE r.err

\* ------------------------------------------------------------------------
\* initialize (lib.rs:26-31), accounts Initialize (lib.rs:208-215)
\* ------------------------------------------------------------------------

\* #[account(init)] state, authority: Signer
InitializeAccounts(authority_signed) ==
    IF ~authority_signed THEN "AccountNotSigner"
    ELSE IF state.exists THEN "AccountAlreadyInUse"
    ELSE "Ok"

initialize(authority) ==
    [err |-> "Ok",
     state |-> [exists |-> TRUE, authority |-> authority, project_count |-> 0]]

\* the instruction as the runtime runs it: its error and the accounts after it
InitializeCall(authority, authority_signed) ==
    LET v == InitializeAccounts(authority_signed)
        r == initialize(authority)
        err == ErrorOf(v, r)
    IN  [err |-> err, state |-> Persist(err, state, r.state)]

Initialize(authority, authority_signed) ==
    LET c == InitializeCall(authority, authority_signed)
    IN  /\ state' = c.state
        /\ UNCHANGED upgrade_vars
        /\ UNCHANGED <<projects, milestones, vault_lamports, lamports,
                       total_funded, total_released, release_count>>

\* ------------------------------------------------------------------------
\* create_project (lib.rs:37-66), accounts CreateProject (lib.rs:217-242)
\* ------------------------------------------------------------------------

\* state: has_one = authority; project: init at seeds [.., project_count + 1]
\* (checked_add(1).unwrap() panics on overflow); creator: Signer
CreateProjectAccounts(creator_signed, authority) ==
    IF ~state.exists THEN "AccountNotInitialized"
    ELSE IF ~creator_signed THEN "AccountNotSigner"
    ELSE IF checked_add(state.project_count, 1) = None THEN "Panic"
    ELSE IF state.authority # authority THEN "ConstraintHasOne"
    ELSE "Ok"

\* lib.rs:52 moved above the increment of lib.rs:48-51
AssignedId_stale(count_before, count) == count_before

\* lib.rs:52: project.id = state.project_count, read after the increment
AssignedId(count_before, count) == count

create_project(st, vault, name_len, description_len, creator, governance_authority, oracle_authority) ==
    IF ~(name_len <= MaxNameLen /\ description_len <= MaxDescLen)
    THEN [err |-> "StringTooLong", state |-> st, project |-> NoProject]
    ELSE LET count == checked_add(st.project_count, 1)
         IN  IF count = None
             THEN [err |-> "NumericalOverflow", state |-> st, project |-> NoProject]
             ELSE [err |-> "Ok",
                   state |-> [st EXCEPT !.project_count = count],
                   project |->
                      [exists |-> TRUE, id |-> AssignedId(st.project_count, count),
                       creator |-> creator,
                       governance_authority |-> governance_authority,
                       oracle_authority |-> oracle_authority,
                       funded_amount |-> 0, kwh_total |-> 0, co2_total |-> 0,
                       last_metrics_root |-> ZeroRoot, num_milestones |-> 0,
                       vault |-> vault]]

\* the project account is the PDA of the next counter value: p = project_count + 1,
\* and the vault account is the PDA of that project (seeds [b"vault", project])
CreateProjectCall(name_len, description_len, creator, creator_signed, authority, governance_authority, oracle_authority) ==
    LET v == CreateProjectAccounts(creator_signed, authority)
        p == state.project_count + 1
        r == create_project(state, p, name_len, description_len, creator,
                            governance_authority, oracle_authority)
        err == ErrorOf(v, r)
    IN  [err |-> err,
         state |-> Persist(err, state, r.state),
         projects |-> Persist(err, projects, [projects EXCEPT ![p] = r.project])]

CreateProject(name_len, description_len, creator, creator_signed, authority, governance_authority, oracle_authority) ==
    LET c == CreateProjectCall(name_len, description_len, creator, creator_signed,
                               authority, governance_authority, oracle_authority)
        p == state.project_count + 1
    IN  /\ p \in ProjectIds
        /\ state' = c.state
        /\ projects' = c.projects
        /\ UNCHANGED upgrade_vars
        /\ UNCHANGED <<milestones, vault_lamports, lamports,
                       total_funded, total_released, release_count>>

\* ------------------------------------------------------------------------
\* create_milestone (lib.rs:72-99), accounts CreateMilestone (lib.rs:244-260)
\* ------------------------------------------------------------------------

\* CreateMilestone with init_if_needed in place of init: an existing milestone
\* account is handed to the handler
CreateMilestoneAccounts_init_if_needed(p, index, creator_signed) ==
    IF ~projects[p].exists THEN "AccountNotInitialized"
    ELSE IF ~creator_signed THEN "AccountNotSigner"
    ELSE "Ok"

\* project: Account<Project>; milestone: init at seeds [b"milestone", project,
\* index], which fails when that address already holds an account;
\* creator: Signer; governance_authority: UncheckedAccount (any key, unsigned)
CreateMilestoneAccounts(p, index, creator_signed) ==
    IF ~projects[p].exists THEN "AccountNotInitialized"
    ELSE IF ~creator_signed THEN "AccountNotSigner"
    ELSE IF milestones[<<p, index>>].exists THEN "AccountAlreadyInUse"
    ELSE "Ok"

\* lib.rs:81-85
CreateMilestoneAuthorized(project, creator, governance_authority) ==
    \/ creator = project.creator
    \/ governance_authority = project.governance_authority

\* u8 `index + 1` (lib.rs:95-96): with overflow checks the build panics at 255,
\* without them the sum wraps.  None stands for the panic.
IndexPlusOne(index, overflow_checks) ==
    IF index + 1 <= U8Max THEN index + 1
    ELSE IF overflow_checks THEN None
    ELSE (index + 1) % (U8Max + 1)

create_milestone(project, p, index, amount_lamports, kwh_target, co2_target, payee, creator, governance_authority, overflow_checks) ==
    IF ~CreateMilestoneAuthorized(project, creator, governance_authority)
    THEN [err |-> "Unauthorized", project |-> project, milestone |-> NoMilestone]
    ELSE LET ms == [exists |-> TRUE, project |-> p, index |-> index,
                    amount_lamports |-> amount_lamports, kwh_target |-> kwh_target,
                    co2_target |-> co2_target, payee |-> payee, released |-> FALSE]
             n == IndexPlusOne(index, overflow_checks)
         IN  IF n = None
             THEN [err |-> "Panic", project |-> project, milestone |-> ms]
             ELSE [err |-> "Ok",
                   project |-> IF n > project.num_milestones
                               THEN [project EXCEPT !.num_milestones = n]
                               ELSE project,
                   milestone |-> ms]

CreateMilestoneCall(p, index, amount_lamports, kwh_target, co2_target, payee, creator, creator_signed, governance_authority, overflow_checks) ==
    LET v == CreateMilestoneAccounts(p, index, creator_signed)
        r == create_milestone(projects[p], p, index, amount_lamports, kwh_target,
                              co2_target, payee, creator, governance_authority,
                              overflow_checks)
        err == ErrorOf(v, r)
    IN  [err |-> err,
         projects |-> Persist(err, projects, [projects EXCEPT ![p] = r.project]),
         milestones |-> Persist(err, milestones,
                                [milestones EXCEPT ![<<p, index>>] = r.milestone])]

CreateMilestone(p, index, amount_lamports, kwh_target, co2_target, payee, creator, creator_signed, governance_authority, overflow_checks) ==
    LET c == CreateMilestoneCall(p, index, amount_lamports, kwh_target, co2_target,
                                 payee, creator, creator_signed, governance_authority,
                                 overflow_checks)
    IN  /\ projects' = c.projects
        /\ milestones' = c.milestones
        /\ UNCHANGED upgrade_vars
        /\ UNCHANGED <<state, vault_lamports, lamports,
                       total_funded, total_released, release_count>>

\* ------------------------------------------------------------------------
\* fund_project (lib.rs:103-125), accounts FundProject (lib.rs:262-271)
\* ------------------------------------------------------------------------

\* project: Account<Project>; vault: the PDA of the project (seeds); funder: Signer
FundProjectAccounts(p, funder_signed) ==
    IF ~projects[p].exists THEN "AccountNotInitialized"
    ELSE IF ~funder_signed THEN "AccountNotSigner"
    ELSE "Ok"

\* system_instruction::transfer through invoke (lib.rs:105-113): fails when the
\* source holds less than amount or the destination would overflow
Transfer(from_lamports, to_lamports, amount) ==
    IF checked_sub(from_lamports, amount) = None
       \/ checked_add(to_lamports, amount) = None
    THEN [ok |-> FALSE, from |-> from_lamports, to |-> to_lamports]
    ELSE [ok |-> TRUE, from |-> from_lamports - amount, to |-> to_lamports + amount]

\* lib.rs:104 with >= for >
AmountValid_nonnegative(amount) == amount >= 0

\* lib.rs:104
AmountValid(amount) == amount > 0

\* The handler on its copies: on a late Err the copies it returns already carry
\* the transfer.
fund_project(project, p, funder, funder_lamports, vault, amount) ==
    IF ~AmountValid(amount)
    THEN [err |-> "InvalidAmount", project |-> project, funder_lamports |-> funder_lamports,
          vault |-> vault, event |-> NoEvent]
    ELSE LET t == Transfer(funder_lamports, vault, amount)
         IN  IF ~t.ok
             THEN [err |-> "TransferFailed", project |-> project,
                   funder_lamports |-> funder_lamports, vault |-> vault,
                   event |-> NoEvent]
             ELSE LET funded == checked_add(project.funded_amount, amount)
                  IN  IF funded = None
                      THEN [err |-> "NumericalOverflow", project |-> project,
                            funder_lamports |-> t.from, vault |-> t.to,
                            event |-> NoEvent]
                      ELSE [err |-> "Ok",
                            project |-> [project EXCEPT !.funded_amount = funded],
                            funder_lamports |-> t.from, vault |-> t.to,
                            event |-> [NoEvent EXCEPT !.name = "ProjectFunded",
                                                      !.project = p, !.key = funder,
                                                      !.amount = amount]]

FundProjectCall(p, funder, funder_signed, amount) ==
    LET v == FundProjectAccounts(p, funder_signed)
        r == fund_project(projects[p], p, funder, lamports[funder], vault_lamports[p],
                          amount)
        err == ErrorOf(v, r)
    IN  [err |-> err,
         projects |-> Persist(err, projects, [projects EXCEPT ![p] = r.project]),
         lamports |-> Persist(err, lamports,
                              [lamports EXCEPT ![funder] = r.funder_lamports]),
         vault_lamports |-> Persist(err, vault_lamports,
                                    [vault_lamports EXCEPT ![p] = r.vault]),
         event |-> IF v = "Ok" THEN r.event ELSE NoEvent]

FundProject(p, funder, funder_signed, amount) ==
    LET c == FundProjectCall(p, funder, funder_signed, amount)
    IN  /\ projects' = c.projects
        /\ lamports' = c.lamports
        /\ vault_lamports' = c.vault_lamports
        /\ total_funded' = IF c.err = "Ok"
                           THEN [total_funded EXCEPT ![p] = @ + amount]
                           ELSE total_funded
        /\ UNCHANGED upgrade_vars
        /\ UNCHANGED <<state, milestones, total_released, release_count>>

\* ------------------------------------------------------------------------
\* submit_metrics (lib.rs:130-155), accounts SubmitMetrics (lib.rs:273-278)
\* ------------------------------------------------------------------------

\* project: Account<Project>; oracle_authority: Signer
SubmitMetricsAccounts(p, oracle_signed) ==
    IF ~projects[p].exists THEN "AccountNotInitialized"
    ELSE IF ~oracle_signed THEN "AccountNotSigner"
    ELSE "Ok"

\* lib.rs:137 left out
IsOracleAuthority_any(project, key) == TRUE

\* lib.rs:137
IsOracleAuthority(project, key) == project.oracle_authority = key

\* The handler on its copy of the project: kwh_total is written before
\* co2_total is computed, so an Err at co2 returns a copy with the new kwh_total.
submit_metrics(project, p, oracle_authority, kwh_delta, co2_delta, new_root) ==
    IF ~IsOracleAuthority(project, oracle_authority)
    THEN [err |-> "Unauthorized", project |-> project, event |-> NoEvent]
    ELSE LET kwh == checked_add(project.kwh_total, kwh_delta)
         IN  IF kwh = None
             THEN [err |-> "NumericalOverflow", project |-> project, event |-> NoEvent]
             ELSE LET p1 == [project EXCEPT !.kwh_total = kwh]
                      co2 == checked_add(p1.co2_total, co2_delta)
                  IN  IF co2 = None
                      THEN [err |-> "NumericalOverflow", project |-> p1,
                            event |-> NoEvent]
                      ELSE LET p2 == [p1 EXCEPT !.co2_total = co2]
                               p3 == IF new_root # NoRoot
                                     THEN [p2 EXCEPT !.last_metrics_root = new_root]
                                     ELSE p2
                           IN  [err |-> "Ok", project |-> p3,
                                event |-> [NoEvent EXCEPT !.name = "MetricsUpdated",
                                                          !.project = p,
                                                          !.kwh_total = p3.kwh_total,
                                                          !.co2_total = p3.co2_total]]

SubmitMetricsCall(p, oracle_authority, oracle_signed, kwh_delta, co2_delta, new_root) ==
    LET v == SubmitMetricsAccounts(p, oracle_signed)
        r == submit_metrics(projects[p], p, oracle_authority, kwh_delta, co2_delta,
                            new_root)
        err == ErrorOf(v, r)
    IN  [err |-> err,
         projects |-> Persist(err, projects, [projects EXCEPT ![p] = r.project]),
         event |-> IF v = "Ok" THEN r.event ELSE NoEvent]

SubmitMetrics(p, oracle_authority, oracle_signed, kwh_delta, co2_delta, new_root) ==
    LET c == SubmitMetricsCall(p, oracle_authority, oracle_signed, kwh_delta,
                               co2_delta, new_root)
    IN  /\ projects' = c.projects
        /\ UNCHANGED upgrade_vars
        /\ UNCHANGED <<state, milestones, vault_lamports, lamports,
                       total_funded, total_released, release_count>>

\* ------------------------------------------------------------------------
\* release_milestone (lib.rs:160-189), accounts ReleaseMilestone (lib.rs:280-291)
\* ------------------------------------------------------------------------

\* project: Account<Project>; vault: the PDA of the project (seeds);
\* milestone: Account<Milestone>, any milestone account; payee: SystemAccount,
\* any system account; governance_authority: Signer
ReleaseMilestoneAccounts(p, m, governance_signed) ==
    IF ~projects[p].exists THEN "AccountNotInitialized"
    ELSE IF ~milestones[m].exists THEN "AccountNotInitialized"
    ELSE IF ~governance_signed THEN "AccountNotSigner"
    ELSE "Ok"

\* lib.rs:163 left out
IsGovernanceAuthority_any(project, key) == TRUE

\* lib.rs:163
IsGovernanceAuthority(project, key) == project.governance_authority = key

\* lib.rs:165 left out
NotReleased_skipped(ms) == TRUE

\* lib.rs:165
NotReleased(ms) == ~ms.released

\* lib.rs:166
BelongsTo(ms, p) == ms.project = p

\* lib.rs:167-168 with the two thresholds OR-ed
ThresholdsMet_either(project, ms) ==
    \/ project.kwh_total >= ms.kwh_target
    \/ project.co2_total >= ms.co2_target

\* lib.rs:167-168
ThresholdsMet(project, ms) ==
    /\ project.kwh_total >= ms.kwh_target
    /\ project.co2_total >= ms.co2_target

\* lib.rs:170 left out
VaultCovers_always(vault_balance, ms) == TRUE

\* lib.rs:170 with > for >=
VaultCovers_strict(vault_balance, ms) == vault_balance > ms.amount_lamports

\* lib.rs:170
VaultCovers(vault_balance, ms) == vault_balance >= ms.amount_lamports

\* The handler on its copies: the vault's lamports are written (lib.rs:172)
\* before the payee's sum is computed, so an Err at the payee returns a copy
\* with the vault already debited.
release_milestone(project, p, ms, vault_balance, payee_lamports, governance_authority, is_signer) ==
    LET fail(e) == [err |-> e, milestone |-> ms, vault |-> vault_balance,
                    payee_lamports |-> payee_lamports, event |-> NoEvent]
    IN  IF ~is_signer THEN fail("Unauthorized")
        ELSE IF ~IsGovernanceAuthority(project, governance_authority)
        THEN fail("Unauthorized")
        ELSE IF ~NotReleased(ms) THEN fail("AlreadyReleased")
        ELSE IF ~BelongsTo(ms, p) THEN fail("InvalidMilestone")
        ELSE IF ~ThresholdsMet(project, ms) THEN fail("MetricThresholdNotMet")
        ELSE IF ~VaultCovers(vault_balance, ms) THEN fail("InsufficientFunds")
        ELSE LET debited == checked_sub(vault_balance, ms.amount_lamports)
             IN  IF debited = None THEN fail("NumericalOverflow")
                 ELSE LET credited == checked_add(payee_lamports, ms.amount_lamports)
                      IN  IF credited = None
                          THEN [fail("NumericalOverflow") EXCEPT !.vault = debited]
                          ELSE [err |-> "Ok",
                                milestone |-> [ms EXCEPT !.released = TRUE],
                                vault |-> debited,
                                payee_lamports |-> credited,
                                event |-> [NoEvent EXCEPT !.name = "MilestoneReleased",
                                                          !.project = p,
                                                          !.index = ms.index,
                                                          !.amount = ms.amount_lamports,
                                                          !.key = ms.payee]]

ReleaseMilestoneCall(p, m, payee, governance_authority, governance_signed) ==
    LET v == ReleaseMilestoneAccounts(p, m, governance_signed)
        r == release_milestone(projects[p], p, milestones[m], vault_lamports[p],
                               lamports[payee], governance_authority, governance_signed)
        err == ErrorOf(v, r)
    IN  [err |-> err,
         milestones |-> Persist(err, milestones,
                                [milestones EXCEPT ![m] = r.milestone]),
         vault_lamports |-> Persist(err, vault_lamports,
                                    [vault_lamports EXCEPT ![p] = r.vault]),
         lamports |-> Persist(err, lamports,
                              [lamports EXCEPT ![payee] = r.payee_lamports]),
         event |-> IF v = "Ok" THEN r.event ELSE NoEvent]

ReleaseMilestone(p, m, payee, governance_authority, governance_signed) ==
    LET c == ReleaseMilestoneCall(p, m, payee, governance_authority, governance_signed)
        debit == vault_lamports[p] - c.vault_lamports[p]
    IN  /\ milestones' = c.milestones
        /\ vault_lamports' = c.vault_lamports
        /\ lamports' = c.lamports
        /\ total_released' = IF c.err = "Ok"
                             THEN [total_released EXCEPT ![m] = @ + debit]
                             ELSE total_released
        /\ release_count' = IF c.err = "Ok"
                            THEN [release_count EXCEPT ![m] = @ + 1]
                            ELSE release_count
        /\ UNCHANGED upgrade_vars
        /\ UNCHANGED <<state, projects, total_funded>>

\* ------------------------------------------------------------------------
\* set_project_authority (lib.rs:194-203), accounts SetProjectAuthority
\* (lib.rs:293-298)
\* ------------------------------------------------------------------------

\* project: Account<Project>; current_governance_authority: Signer
SetProjectAuthorityAccounts(p, current_signed) ==
    IF ~projects[p].exists THEN "AccountNotInitialized"
    ELSE IF ~current_signed THEN "AccountNotSigner"
    ELSE "Ok"

set_project_authority(project, current_governance_authority, is_signer, new_governance_authority) ==
    IF ~is_signer THEN [err |-> "Unauthorized", project |-> project]
    ELSE IF ~IsGovernanceAuthority(project, current_governance_authority)
    THEN [err |-> "Unauthorized", project |-> project]
    ELSE [err |-> "Ok",
          project |-> [project EXCEPT !.governance_authority = new_governance_authority]]

SetProjectAuthorityCall(p, current_governance_authority, current_signed, new_governance_authority) ==
    LET v == SetProjectAuthorityAccounts(p, current_signed)
        r == set_project_authority(projects[p], current_governance_authority,
                                   current_signed, new_governance_authority)
        err == ErrorOf(v, r)
    IN  [err |-> err,
         projects |-> Persist(err, projects, [projects EXCEPT ![p] = r.project])]

SetProjectAuthority(p, current_governance_authority, current_signed, new_governance_authority) ==
    LET c == SetProjectAuthorityCall(p, current_governance_authority, current_signed,
                                     new_governance_authority)
    IN  /\ projects' = c.projects
        /\ UNCHANGED upgrade_vars
        /\ UNCHANGED <<state, milestones, vault_lamports, lamports,
                       total_funded, total_released, release_count>>

\* ------------------------------------------------------------------------
\* ContractVersion (upgrade.rs:19-43) and its methods (upgrade.rs:152-177)
\* ------------------------------------------------------------------------

\* unix timestamps Clock::get() returns
Timestamps == {1, 2, 3}

\* the version numbers callers pass to complete_upgrade
NewVersions == 0..U64Max

\* #[derive(Default)]: the descriptor of a freshly created account
DefaultContractVersion ==
    [version |-> 0, last_upgrade |-> 0, upgrade_count |-> 0,
     upgrade_in_progress |-> FALSE, migration_complete |-> FALSE]

\* upgrade.rs:154-156
can_upgrade(cv) == ~cv.upgrade_in_progress

\* upgrade.rs:160 written as a toggle
start_upgrade_toggling(cv) ==
    [cv EXCEPT !.upgrade_in_progress = ~cv.upgrade_in_progress,
               !.migration_complete = FALSE]

\* upgrade.rs:159-162
start_upgrade(cv) ==
    [cv EXCEPT !.upgrade_in_progress = TRUE, !.migration_complete = FALSE]

\* u64 `upgrade_count += 1` (upgrade.rs:167): at u64::MAX a build with overflow
\* checks panics, one without wraps.  None stands for the panic.
CountPlusOne(count, overflow_checks) ==
    IF count + 1 <= U64Max THEN count + 1
    ELSE IF overflow_checks THEN None
    ELSE (count + 1) % (U64Max + 1)

\* upgrade.rs:165-171: the descriptor as the method leaves it; on a panic it
\* unwinds after the write of version
complete_upgrade(cv, new_version, now, overflow_checks) ==
    LET n == CountPlusOne(cv.upgrade_count, overflow_checks)
    IN  IF n = None
        THEN [panic |-> TRUE, cv |-> [cv EXCEPT !.version = new_version]]
        ELSE [panic |-> FALSE,
              cv |-> [cv EXCEPT !.version = new_version,
                                !.upgrade_count = n,
                                !.last_upgrade = now,
                                !.upgrade_in_progress = FALSE,
                                !.migration_complete = TRUE]]

\* upgrade.rs:174-176 with the second line of start_upgrade copied in
cancel_upgrade_clearing(cv) ==
    [cv EXCEPT !.upgrade_in_progress = FALSE, !.migration_complete = FALSE]

\* upgrade.rs:174-176
cancel_upgrade(cv) == [cv EXCEPT !.upgrade_in_progress = FALSE]

StartUpgrade ==
    /\ contract_version' = start_upgrade(contract_version)
    /\ starts_pending' = IF starts_pending < 2 THEN starts_pending + 1 ELSE 2
    /\ UNCHANGED <<escrow_vars, migration>>

\* a call that panics aborts the transaction: the account keeps its data
CompleteUpgrade(new_version, now, overflow_checks) ==
    LET r == complete_upgrade(contract_version, new_version, now, overflow_checks)
    IN  /\ contract_version' = IF r.panic THEN contract_version ELSE r.cv
        /\ starts_pending' = IF r.panic THEN starts_pending ELSE 0
        /\ UNCHANGED <<escrow_vars, migration>>

CancelUpgrade ==
    /\ contract_version' = cancel_upgrade(contract_version)
    /\ starts_pending' = 0
    /\ UNCHANGED <<escrow_vars, migration>>

\* ------------------------------------------------------------------------
\* MigrationState (upgrade.rs:102-133) and its methods (upgrade.rs:179-194)
\* ------------------------------------------------------------------------

\* the quorums migrations are created with: none, two approvers, u8::MAX
RequiredApprovals == {0, 2, U8Max}

\* #[derive(Default)] with the required quorum filled in at creation
NewMigrationState(required_approvals) ==
    [approval_count |-> 0, required_approvals |-> required_approvals]

\* upgrade.rs:186-188
has_all_approvals(ms) == ms.approval_count >= ms.required_approvals

\* u8 `approval_count += 1` (upgrade.rs:192): at u8::MAX a build with overflow
\* checks panics, one without wraps.
add_approval(ms, overflow_checks) ==
    IF ms.approval_count + 1 <= U8Max
    THEN [panic |-> FALSE, ms |-> [ms EXCEPT !.approval_count = ms.approval_count + 1]]
    ELSE IF overflow_checks THEN [panic |-> TRUE, ms |-> ms]
    ELSE [panic |-> FALSE,
          ms |-> [ms EXCEPT !.approval_count = (ms.approval_count + 1) % (U8Max + 1)]]

\* a call that panics aborts the transaction: the account keeps its data
AddApproval(overflow_checks) ==
    LET r == add_approval(migration, overflow_checks)
    IN  /\ migration' = IF r.panic THEN migration ELSE r.ms
        /\ UNCHANGED <<escrow_vars, contract_version, starts_pending>>

\* ------------------------------------------------------------------------
\* The program
\* ------------------------------------------------------------------------

Init ==
    /\ state = NoState
    /\ projects = [p \in ProjectIds |-> NoProject]
    /\ milestones = [m \in MilestoneKeys |-> NoMilestone]
    /\ vault_lamports = [p \in ProjectIds |-> 0]
    /\ lamports = InitialLamports
    /\ total_funded = [p \in ProjectIds |-> 0]
    /\ total_released = [m \in MilestoneKeys |-> 0]
    /\ release_count = [m \in MilestoneKeys |-> 0]
    /\ contract_version = DefaultContractVersion
    /\ migration = NewMigrationState(0)
    /\ starts_pending = 0

\* The instructions callers submit, their arguments drawn from the sets of I:
\* projects are created at the addresses I.projects, and the other
\* instructions are sent to the projects I.targets.
NextWith(I) ==
    \/ \E a \in Deployers, sg \in BOOLEAN : Initialize(a, sg)
    \/ \E nl \in NameLens, dl \in DescLens, c \in Creators, sg \in BOOLEAN,
          a \in PlatformSlot, g \in Governors, o \in Oracles :
          /\ state.project_count + 1 \in I.projects
          /\ CreateProject(nl, dl, c, sg, a, g, o)
    \/ \E p \in I.targets, i \in I.indices, amt \in I.payouts, kt \in Targets,
          ct \in Targets, pay \in Payees, c \in CreatorSlot, sg \in BOOLEAN,
          g \in GovernanceNamed :
          \E oc \in BuildsFor(i) :
             CreateMilestone(p, i, amt, kt, ct, pay, c, sg, g, oc)
    \/ \E p \in I.targets, f \in Wallets, sg \in BOOLEAN, amt \in I.funds :
          FundProject(p, f, sg, amt)
    \/ \E p \in I.targets, o \in OracleSlot, sg \in BOOLEAN, kd \in I.deltas,
          cd \in I.deltas, nr \in I.roots \cup {NoRoot} :
          SubmitMetrics(p, o, sg, kd, cd, nr)
    \/ \E p \in I.targets, m \in I.targets \X I.indices, pay \in Wallets,
          g \in GovernanceSlot, sg \in BOOLEAN :
          ReleaseMilestone(p, m, pay, g, sg)
    \/ \E p \in I.targets, g \in GovernanceSlot, sg \in BOOLEAN,
          n \in I.new_governors :
          SetProjectAuthority(p, g, sg, n)

\* One project, driven with every argument of the input sets.
OneProject ==
    [projects |-> {1}, targets |-> {1}, indices |-> Indices, payouts |-> PayoutAmounts,
     funds |-> FundAmounts, deltas |-> Deltas, roots |-> Roots,
     new_governors |-> NewGovernors]

\* Two projects side by side, each driven with one argument of each kind.
TwoProjects ==
    [projects |-> {1, 2}, targets |-> {1, 2}, indices |-> {0}, payouts |-> {1},
     funds |-> {1}, deltas |-> {Target}, roots |-> {},
     new_governors |-> {"gov2"}]

Next == NextWith(OneProject)

Spec == Init /\ [][Next]_vars

NextTwo == NextWith(TwoProjects)

SpecTwo == Init /\ [][NextTwo]_vars

\* The version descriptor alone: the three methods in any order.  A build has
\* overflow checks or not; the choice matters at u64::MAX only.
\* The registry filled up: a project at every address the counter can name,
\* the first of them driven with one argument of each kind.
Registry ==
    [projects |-> ProjectIds, targets |-> {1}, indices |-> {0}, payouts |-> {1},
     funds |-> {1}, deltas |-> {Target}, roots |-> {},
     new_governors |-> {"gov2"}]

NextRegistry == NextWith(Registry)

SpecRegistry == Init /\ [][NextRegistry]_vars

\* One project with one milestone, funded in units of its payout, whose
\* metrics arrive in two sizes: a part of the target, and the whole target.
Scenario ==
    [projects |-> {1}, targets |-> {1}, indices |-> {0}, payouts |-> {1},
     funds |-> {1}, deltas |-> {1, Target}, roots |-> {},
     new_governors |-> {"gov2"}]

NextScenario == NextWith(Scenario)

SpecScenario == Init /\ [][NextScenario]_vars

NextVersion ==
    \/ StartUpgrade
    \/ \E v \in NewVersions, now \in Timestamps :
          \E oc \in (IF contract_version.upgrade_count = U64Max THEN BOOLEAN ELSE {TRUE}) :
             CompleteUpgrade(v, now, oc)
    \/ CancelUpgrade

SpecVersion == Init /\ [][NextVersion]_vars

\* A migration alone: created with a quorum, then approved again and again.
InitMigration ==
    /\ state = NoState
    /\ projects = [p \in ProjectIds |-> NoProject]
    /\ milestones = [m \in MilestoneKeys |-> NoMilestone]
    /\ vault_lamports = [p \in ProjectIds |-> 0]
    /\ lamports = InitialLamports
    /\ total_funded = [p \in ProjectIds |-> 0]
    /\ total_released = [m \in MilestoneKeys |-> 0]
    /\ release_count = [m \in MilestoneKeys |-> 0]
    /\ contract_version = DefaultContractVersion
    /\ migration \in {NewMigrationState(r) : r \in RequiredApprovals}
    /\ starts_pending = 0

NextMigration ==
    \E oc \in (IF migration.approval_count = U8Max THEN BOOLEAN ELSE {TRUE}) :
        AddApproval(oc)

SpecMigration == InitMigration /\ [][NextMigration]_vars

\* ------------------------------------------------------------------------
\* Properties
\* ------------------------------------------------------------------------

\* the governance authority recorded in project p, as an authenticated signer,
\* releases milestone account m to payee account pay
GovernanceRelease(p, m, pay) ==
    ReleaseMilestoneCall(p, m, pay, projects[p].governance_authority, TRUE)

\* C1: release_milestone succeeds at most once on a milestone: once the
\* milestone is released, a release by the governance authority fails with
\* AlreadyReleased, and over the whole run the vault was debited for the
\* milestone by its payout amount exactly once (and not at all before).
C1_ReleasedOnce ==
    \A m \in MilestoneKeys :
        /\ release_count[m] <= 1
        /\ release_count[m] = (IF milestones[m].released THEN 1 ELSE 0)
        /\ total_released[m] = release_count[m] * milestones[m].amount_lamports
        /\ milestones[m].released =>
              \A pay \in Wallets :
                 GovernanceRelease(m[1], m, pay).err = "AlreadyReleased"

\* a milestone with a payout was released, and its project holds funds again,
\* so that only the released flag stands in the way of a second payout
C1_Witness ==
    \E m \in MilestoneKeys :
        /\ release_count[m] = 1
        /\ milestones[m].amount_lamports > 0
        /\ vault_lamports[m[1]] >= milestones[m].amount_lamports
        /\ ThresholdsMet(projects[m[1]], milestones[m])

\* C2: released is terminal: no step, create_milestone on the same project
\* and index included, takes a milestone from released = true to false.
C2_ReleasedIsTerminal ==
    [][\A m \in MilestoneKeys : milestones[m].released => milestones'[m].released]_vars

\* a released milestone whose slot the project's creator tries to create again
C2_Witness ==
    \E m \in MilestoneKeys :
        /\ milestones[m].released
        /\ \E amt \in PayoutAmounts :
              CreateMilestoneCall(m[1], m[2], amt, Target, Target, "payee",
                                  projects[m[1]].creator, TRUE,
                                  projects[m[1]].governance_authority, FALSE).err
                 = "AccountAlreadyInUse"

\* C3: release_milestone succeeds only when both totals meet their targets;
\* called by the authenticated governance authority on an unreleased milestone
\* of the project with exactly one of the two targets met, it fails with
\* MetricThresholdNotMet and moves no funds.
C3_BothThresholds ==
    \A p \in ProjectIds, m \in MilestoneKeys, pay \in Wallets :
        LET project == projects[p]
            ms == milestones[m]
            c == GovernanceRelease(p, m, pay)
            kwh_met == project.kwh_total >= ms.kwh_target
            co2_met == project.co2_total >= ms.co2_target
        IN  /\ \A g \in GovernanceSlot, sg \in BOOLEAN :
                  ReleaseMilestoneCall(p, m, pay, g, sg).err = "Ok"
                     => kwh_met /\ co2_met
            /\ (project.exists /\ ms.exists /\ ~ms.released /\ ms.project = p
                /\ kwh_met # co2_met)
               => /\ c.err = "MetricThresholdNotMet"
                  /\ c.vault_lamports = vault_lamports
                  /\ c.lamports = lamports
                  /\ c.milestones = milestones

\* kWh is at its target and CO2 is not, the milestone is unreleased and the
\* vault covers its payout
C3_Witness ==
    \E m \in MilestoneKeys :
        /\ milestones[m].exists /\ ~milestones[m].released
        /\ projects[m[1]].kwh_total >= milestones[m].kwh_target
        /\ projects[m[1]].co2_total < milestones[m].co2_target
        /\ vault_lamports[m[1]] >= milestones[m].amount_lamports
        /\ \E pay \in Wallets :
              GovernanceRelease(m[1], m, pay).err = "MetricThresholdNotMet"

\* the accounts a release call leaves as they were
ReleaseChangedNothing(c) ==
    /\ c.milestones = milestones
    /\ c.vault_lamports = vault_lamports
    /\ c.lamports = lamports

DueForRelease(p, m) ==
    /\ projects[p].exists /\ milestones[m].exists
    /\ ~milestones[m].released
    /\ milestones[m].project = p
    /\ projects[p].kwh_total >= milestones[m].kwh_target
    /\ projects[p].co2_total >= milestones[m].co2_target

\* C5: a successful release debits the vault and credits the payee account by
\* exactly amount_lamports in one step and sets released; when the credit
\* would overflow the payee's balance, the call fails and neither the debit
\* nor the flag is observed.  No instruction creates or destroys lamports.
C5_AtomicPayout ==
    /\ \A p \in ProjectIds, m \in MilestoneKeys, pay \in Wallets,
          g \in GovernanceSlot, sg \in BOOLEAN :
          LET c == ReleaseMilestoneCall(p, m, pay, g, sg)
              amount == milestones[m].amount_lamports
          IN  /\ c.err = "Ok"
                 => /\ c.vault_lamports[p] = vault_lamports[p] - amount
                    /\ c.lamports[pay] = lamports[pay] + amount
                    /\ c.vault_lamports[p] + c.lamports[pay]
                          = vault_lamports[p] + lamports[pay]
                    /\ c.milestones[m].released
                    /\ \A q \in ProjectIds \ {p} :
                          c.vault_lamports[q] = vault_lamports[q]
                    /\ \A w \in Wallets \ {pay} : c.lamports[w] = lamports[w]
              /\ (projects[p].exists /\ milestones[m].exists
                  /\ lamports[pay] + amount > U64Max)
                 => c.err # "Ok" /\ ReleaseChangedNothing(c)
              /\ (DueForRelease(p, m) /\ VaultCovers(vault_lamports[p], milestones[m])
                  /\ lamports[pay] + amount > U64Max)
                 => GovernanceRelease(p, m, pay).err = "NumericalOverflow"

\* a payout has been made, and another one is due whose credit would overflow
\* the payee's balance
C5_Witness ==
    \E m \in MilestoneKeys, n \in MilestoneKeys, pay \in Wallets :
        /\ release_count[m] = 1
        /\ milestones[m].amount_lamports > 0
        /\ lamports[pay] + milestones[n].amount_lamports > U64Max
        /\ GovernanceRelease(n[1], n, pay).err = "NumericalOverflow"

\* C6: with every earlier check passing, release_milestone fails with
\* InsufficientFunds when the vault holds less than the payout amount; no
\* vault balance is ever negative.
C6_InsufficientFunds ==
    /\ \A p \in ProjectIds : vault_lamports[p] >= 0
    /\ \A p \in ProjectIds, m \in MilestoneKeys, pay \in Wallets :
          (DueForRelease(p, m)
           /\ vault_lamports[p] < milestones[m].amount_lamports)
          => /\ GovernanceRelease(p, m, pay).err = "InsufficientFunds"
             /\ ReleaseChangedNothing(GovernanceRelease(p, m, pay))

\* a milestone due for release whose vault holds something, but not enough
C6_Witness ==
    \E p \in ProjectIds, m \in MilestoneKeys :
        /\ DueForRelease(p, m)
        /\ vault_lamports[p] > 0
        /\ vault_lamports[p] < milestones[m].amount_lamports
        /\ GovernanceRelease(p, m, "payee").err = "InsufficientFunds"

\* the accounts a funding call leaves as they were
FundChangedNothing(c) ==
    /\ c.projects = projects
    /\ c.vault_lamports = vault_lamports
    /\ c.lamports = lamports

\* C7: funded_amount is the sum of the amounts of the fund_project calls that
\* succeeded; a fund_project that fails (amount = 0, failed transfer,
\* overflow) changes neither funded_amount nor any balance, and a call with
\* amount = 0 on an existing project by a signer fails with InvalidAmount.
C7_FundedIsSumOfFunding ==
    /\ \A p \in ProjectIds : projects[p].funded_amount = total_funded[p]
    /\ \A p \in ProjectIds, f \in Wallets, sg \in BOOLEAN, amt \in FundAmounts :
          LET c == FundProjectCall(p, f, sg, amt)
          IN  /\ c.err # "Ok" => FundChangedNothing(c)
              /\ amt = 0 => c.err # "Ok"
              /\ (amt = 0 /\ projects[p].exists /\ sg) => c.err = "InvalidAmount"
              /\ c.err = "Ok"
                 => /\ c.projects[p].funded_amount = projects[p].funded_amount + amt
                    /\ c.vault_lamports[p] = vault_lamports[p] + amt
                    /\ c.lamports[f] = lamports[f] - amt

\* a project funded by more than one call, where a further call would fail
\* because the funder cannot pay
C7_Witness ==
    \E p \in ProjectIds, f \in Wallets :
        /\ total_funded[p] > 1
        /\ vault_lamports[p] < total_funded[p]
        /\ lamports[f] = 0
        /\ FundProjectCall(p, f, TRUE, 1).err = "TransferFailed"
        /\ FundProjectCall(p, f, TRUE, 0).err = "InvalidAmount"

\* every u64 value
U64 == 0..U64Max

\* C8: a submit_metrics that would push kwh_total or co2_total, or a
\* fund_project that would push funded_amount, above u64::MAX fails and
\* leaves the totals, funded_amount, the integrity anchor and every balance as
\* they were; called by the oracle authority (by a funder whose transfer goes
\* through) it fails with NumericalOverflow.
C8_OverflowLeavesTotals ==
    /\ \A p \in ProjectIds, o \in OracleSlot, sg \in BOOLEAN, kd \in U64, cd \in U64,
          nr \in Roots \cup {NoRoot} :
          LET c == SubmitMetricsCall(p, o, sg, kd, cd, nr)
          IN  (projects[p].kwh_total + kd > U64Max
               \/ projects[p].co2_total + cd > U64Max)
              => /\ c.err # "Ok"
                 /\ c.projects = projects
                 /\ (projects[p].exists /\ sg /\ o = projects[p].oracle_authority)
                    => c.err = "NumericalOverflow"
    /\ \A p \in ProjectIds, f \in Wallets, sg \in BOOLEAN, amt \in U64 :
          LET c == FundProjectCall(p, f, sg, amt)
          IN  projects[p].funded_amount + amt > U64Max
              => /\ c.err # "Ok"
                 /\ FundChangedNothing(c)
                 /\ (projects[p].exists /\ sg
                     /\ Transfer(lamports[f], vault_lamports[p], amt).ok)
                    => c.err = "NumericalOverflow"

\* the oracle can submit a kWh delta that fits with a CO2 delta that does not,
\* and a funder can pay an amount that funded_amount cannot take
C8_Witness ==
    \E p \in ProjectIds, f \in Wallets, kd \in U64, cd \in Deltas, amt \in FundAmounts :
        /\ kd > 0
        /\ projects[p].kwh_total + kd <= U64Max
        /\ projects[p].co2_total + cd > U64Max
        /\ SubmitMetricsCall(p, projects[p].oracle_authority, TRUE, kd, cd, "rootB").err
              = "NumericalOverflow"
        /\ Transfer(lamports[f], vault_lamports[p], amt).ok
        /\ FundProjectCall(p, f, TRUE, amt).err = "NumericalOverflow"

\* C9: a project's vault balance grows only in a successful fund_project on
\* that project and shrinks only in a successful release_milestone on that
\* project; every other step (create_project, create_milestone,
\* submit_metrics, set_project_authority, any instruction that fails, any
\* instruction on another project) leaves it as it was.
C9_VaultFrame ==
    [][\A p \in ProjectIds :
         /\ vault_lamports'[p] > vault_lamports[p]
            => \E f \in Wallets, amt \in U64 :
                  /\ FundProjectCall(p, f, TRUE, amt).err = "Ok"
                  /\ FundProject(p, f, TRUE, amt)
                  /\ vault_lamports'[p] = vault_lamports[p] + amt
         /\ vault_lamports'[p] < vault_lamports[p]
            => \E m \in MilestoneKeys, pay \in Wallets :
                  /\ GovernanceRelease(p, m, pay).err = "Ok"
                  /\ ReleaseMilestone(p, m, pay, projects[p].governance_authority, TRUE)
                  /\ milestones[m].project = p
                  /\ vault_lamports'[p]
                        = vault_lamports[p] - milestones[m].amount_lamports
      ]_vars

\* both projects were funded, one of them has paid a milestone out since, and
\* metrics, milestones and a new authority were recorded on the other
C9_Witness ==
    /\ total_funded[1] > 0 /\ total_funded[2] > 0
    /\ release_count[<<1, 0>>] = 1
    /\ vault_lamports[1] < total_funded[1]
    /\ vault_lamports[2] = total_funded[2]
    /\ milestones[<<2, 0>>].exists
    /\ projects[2].kwh_total > 0
    /\ projects[2].governance_authority = "gov2"

\* C10: create_milestone succeeds only for a caller (the signing creator
\* account) that is the project's creator or its current governance authority;
\* a call signed by anybody else creates or changes no milestone, also when
\* the governance_authority account it passes carries the governance
\* authority's key without a signature.
C10_OnlyCreatorOrGovernance ==
    \A p \in ProjectIds, i \in Indices, creator \in CreatorSlot, sg \in BOOLEAN,
       g \in GovernanceSlot, oc \in BOOLEAN :
       LET c == CreateMilestoneCall(p, i, 1, Target, Target, "payee", creator, sg, g, oc)
       IN  (projects[p].exists
            /\ creator # projects[p].creator
            /\ creator # projects[p].governance_authority)
           => /\ c.err # "Ok"
              /\ c.milestones = milestones
              /\ c.projects = projects

C11_Calls ==
    \A p \in ProjectIds, g \in GovernanceSlot, sg \in BOOLEAN, n \in NewGovernors :
        LET c == SetProjectAuthorityCall(p, g, sg, n)
            current == sg /\ g = projects[p].governance_authority
        IN  projects[p].exists
            => /\ c.err = "Ok" <=> current
               /\ current => c.projects = [projects EXCEPT ![p].governance_authority = n]
               /\ ~current => c.projects = projects
               /\ (sg /\ ~current) => c.err = "Unauthorized"
               /\ ~sg => c.err = "AccountNotSigner"

\* a step that replaces the governance authority old of project p by new
C11_Rotation(p, old, new) ==
    /\ projects[p].exists
    /\ projects[p].governance_authority = old
    /\ projects'[p].governance_authority = new
    /\ old # new

C12_OracleOnly ==
    \A p \in ProjectIds, o \in OracleSlot, sg \in BOOLEAN, kd \in U64, cd \in U64,
       nr \in Roots \cup {NoRoot} :
        LET c == SubmitMetricsCall(p, o, sg, kd, cd, nr)
            old == projects[p]
            new == c.projects[p]
        IN  old.exists
            => /\ c.err = "Ok" => (sg /\ o = old.oracle_authority)
               /\ (sg /\ o # old.oracle_authority) => c.err = "Unauthorized"
               /\ ~(sg /\ o = old.oracle_authority)
                  => /\ c.err # "Ok"
                     /\ c.projects = projects
               /\ c.err = "Ok"
                  => /\ new.kwh_total = old.kwh_total + kd
                     /\ new.co2_total = old.co2_total + cd
                     /\ new.last_metrics_root
                           = (IF nr = NoRoot THEN old.last_metrics_root ELSE nr)
                     /\ c.projects = [projects EXCEPT ![p] = new]
                     /\ new = [old EXCEPT !.kwh_total = new.kwh_total,
                                          !.co2_total = new.co2_total,
                                          !.last_metrics_root = new.last_metrics_root]

\* the oracle stored an anchor with metrics that still leave room, so that a
\* submission without an anchor, one with another anchor and one by a
\* stranger can all be told apart
C12_Witness ==
    \E p \in ProjectIds :
        /\ projects[p].last_metrics_root = "rootA"
        /\ projects[p].kwh_total > 0
        /\ SubmitMetricsCall(p, projects[p].oracle_authority, TRUE, 0, 1, NoRoot).err = "Ok"
        /\ SubmitMetricsCall(p, projects[p].oracle_authority, TRUE, 0, 1, "rootB").err = "Ok"
        /\ SubmitMetricsCall(p, "mallory", TRUE, 0, 1, "rootB").err = "Unauthorized"

\* C13: no step makes a project's funded_amount, kwh_total or co2_total
\* smaller; a release_milestone in particular leaves funded_amount as it was.
C13_TotalsNeverDecrease ==
    [][/\ \A p \in ProjectIds :
            /\ projects'[p].funded_amount >= projects[p].funded_amount
            /\ projects'[p].kwh_total >= projects[p].kwh_total
            /\ projects'[p].co2_total >= projects[p].co2_total
       /\ vault_lamports' # vault_lamports /\ total_released' # total_released
          => projects' = projects
      ]_vars

\* a project was funded up to u64::MAX and its metrics pushed to their
\* targets, and a milestone was paid out of its vault since
C13_Witness ==
    \E p \in ProjectIds, m \in MilestoneKeys :
        /\ m[1] = p
        /\ release_count[m] = 1
        /\ projects[p].funded_amount = U64Max
        /\ vault_lamports[p] < projects[p].funded_amount
        /\ projects[p].kwh_total >= Target
        /\ projects[p].co2_total >= Target
        /\ FundProjectCall(p, "alice", TRUE, 1).err = "NumericalOverflow"

\* C14: a create_milestone signed by the project's creator for an index whose
\* slot holds an un-released milestone of the project succeeds and overwrites
\* the milestone's payout amount, kWh target, CO2 target and payee with the
\* new arguments, leaving released = false.
C14_OverwriteUnreleased ==
    \A p \in ProjectIds, i \in Indices \ {U8Max}, amt \in PayoutAmounts, kt \in U64,
       ct \in U64, pay \in Wallets :
        LET c == CreateMilestoneCall(p, i, amt, kt, ct, pay, projects[p].creator, TRUE,
                                     projects[p].governance_authority, TRUE)
        IN  (projects[p].exists /\ milestones[<<p, i>>].exists
             /\ ~milestones[<<p, i>>].released)
            => /\ c.err = "Ok"
               /\ c.milestones[<<p, i>>]
                     = [exists |-> TRUE, project |-> p, index |-> i,
                        amount_lamports |-> amt, kwh_target |-> kt, co2_target |-> ct,
                        payee |-> pay, released |-> FALSE]

\* C15: a start_upgrade issued while upgrade_in_progress is already true does
\* not take effect: it leaves every field of ContractVersion as it was,
\* migration_complete included; a start_upgrade changes the descriptor only in
\* a state where can_upgrade() is true.
C15_SecondStartHasNoEffect ==
    /\ [](contract_version.upgrade_in_progress
          => /\ ~can_upgrade(contract_version)
             /\ start_upgrade(contract_version) = contract_version)
    /\ [][StartUpgrade
          => /\ contract_version' # contract_version => can_upgrade(contract_version)
             /\ starts_pending >= 1 => contract_version' = contract_version
             /\ ~can_upgrade(contract_version')
             /\ ~contract_version'.migration_complete
       ]_vars

\* start_upgrade was called a second time on a descriptor that has a completed
\* upgrade behind it and is upgrading again
C15_Witness ==
    /\ starts_pending = 2
    /\ contract_version.upgrade_in_progress
    /\ contract_version.upgrade_count > 0
    /\ contract_version.version > 0

\* C16: cancel_upgrade, in whatever state the descriptor is, makes
\* can_upgrade() true and leaves version, migration_complete, upgrade_count
\* and last_upgrade exactly as they were.
C16_CancelFrame ==
    /\ [](LET r == cancel_upgrade(contract_version)
          IN  /\ can_upgrade(r)
              /\ r.version = contract_version.version
              /\ r.migration_complete = contract_version.migration_complete
              /\ r.upgrade_count = contract_version.upgrade_count
              /\ r.last_upgrade = contract_version.last_upgrade)
    /\ [][CancelUpgrade
          => /\ can_upgrade(contract_version')
             /\ contract_version'.version = contract_version.version
             /\ contract_version'.migration_complete = contract_version.migration_complete
             /\ contract_version'.upgrade_count = contract_version.upgrade_count
             /\ contract_version'.last_upgrade = contract_version.last_upgrade
       ]_vars

\* an upgrade was completed, another one started and then cancelled: the
\* descriptor is idle with migration_complete still cleared by the start and
\* the version, count and timestamp of the completed upgrade
C16_Witness ==
    /\ can_upgrade(contract_version)
    /\ ~contract_version.migration_complete
    /\ contract_version.upgrade_count > 0
    /\ contract_version.version > 0
    /\ contract_version.last_upgrade > 0

\* C17: version changes only in a complete_upgrade step that takes the
\* descriptor from Upgrading to Idle: no step changes version while
\* upgrade_in_progress is false, and a step that changes it increments
\* upgrade_count by exactly 1 and sets migration_complete.
C17_VersionOnlyFromUpgrading ==
    [][contract_version'.version # contract_version.version
       => /\ contract_version.upgrade_in_progress
          /\ ~contract_version'.upgrade_in_progress
          /\ contract_version'.upgrade_count = contract_version.upgrade_count + 1
          /\ contract_version'.migration_complete
      ]_vars

\* C18: approval_count never decreases, however many add_approval calls are
\* made (more than 255 included), so has_all_approvals(), once true, stays
\* true.
C18_ApprovalsNeverDecrease ==
    [][/\ migration'.approval_count >= migration.approval_count
       /\ has_all_approvals(migration) => has_all_approvals(migration')
      ]_vars

\* what every create_project call would do in the current state
C19_Calls ==
    \A nl \in NameLens, dl \in DescLens, cr \in Creators, sg \in BOOLEAN,
       a \in PlatformSlot, g \in Governors, o \in Oracles :
        LET c == CreateProjectCall(nl, dl, cr, sg, a, g, o)
            count == state.project_count
        IN  /\ (nl > MaxNameLen \/ dl > MaxDescLen)
               => /\ c.err # "Ok"
                  /\ c.state = state /\ c.projects = projects
                  /\ CreateProjectAccounts(sg, a) = "Ok" => c.err = "StringTooLong"
            /\ count = U64Max
               => /\ c.err # "Ok"
                  /\ c.state = state /\ c.projects = projects
            /\ c.err = "Ok"
               => /\ c.state.project_count = count + 1
                  /\ c.projects[count + 1].exists
                  /\ c.projects[count + 1].id = count + 1
                  /\ c.projects[count + 1].creator = cr
                  /\ c.projects[count + 1].vault = count + 1
                  /\ \A q \in ProjectIds \ {count + 1} : c.projects[q] = projects[q]

\* the counter and the projects it has numbered
C19_Numbering ==
    /\ state.project_count \in 0..U64Max
    /\ \A a \in Deployers : InitializeCall(a, TRUE).err = "Ok"
                            => InitializeCall(a, TRUE).state.project_count = 0
    /\ \A p \in ProjectIds :
          /\ projects[p].exists <=> p <= state.project_count
          /\ projects[p].exists => projects[p].id = p /\ projects[p].vault = p
    /\ \A p \in ProjectIds, q \in ProjectIds :
          (projects[p].exists /\ projects[q].exists /\ p # q)
          => projects[p].id # projects[q].id

\* C19: project_count starts at 0, never decreases and grows by exactly 1 in
\* each successful create_project and in no other step; the project created
\* gets the counter's value after the increment as its id, so ids are unique,
\* and its id, creator and vault address never change afterwards.  A
\* create_project with a name over 64 bytes or a description over 256 bytes
\* fails (with StringTooLong once its accounts are accepted) and leaves the
\* counter alone, and one at project_count = u64::MAX fails and creates
\* nothing.
C19_ProjectCounter ==
    /\ [](C19_Calls /\ C19_Numbering)
    /\ [][/\ state'.project_count >= state.project_count
          /\ state'.project_count # state.project_count
             => /\ state'.project_count = state.project_count + 1
                /\ ~projects[state'.project_count].exists
                /\ projects'[state'.project_count].id = state'.project_count
                /\ \E nl \in NameLens, dl \in DescLens, cr \in Creators,
                      a \in PlatformSlot, g \in Governors, o \in Oracles :
                      /\ CreateProjectCall(nl, dl, cr, TRUE, a, g, o).err = "Ok"
                      /\ CreateProject(nl, dl, cr, TRUE, a, g, o)
          /\ \A p \in ProjectIds :
                projects[p].exists
                => /\ projects'[p].exists
                   /\ projects'[p].id = projects[p].id
                   /\ projects'[p].creator = projects[p].creator
                   /\ projects'[p].vault = projects[p].vault
       ]_vars

\* the counter stands at u64::MAX, a project exists at each of its values, the
\* first one has been funded, measured and paid out, and a further
\* create_project, whose accounts and strings are in order, is refused
C19_Witness ==
    /\ state.project_count = U64Max
    /\ \A p \in ProjectIds : projects[p].exists
    /\ release_count[<<1, 0>>] = 1
    /\ projects[1].governance_authority = "gov2"
    /\ CreateProjectCall(MaxNameLen, MaxDescLen, "alice", TRUE, "alice", "gov",
                         "oracle").err = "Panic"

\* the scenario's project: milestone 0 with both targets at Target, a payout
\* of 1 to the payee, not released, and a vault holding exactly the payout
C20_Funded ==
    /\ projects[1].exists
    /\ milestones[<<1, 0>>].exists
    /\ ~milestones[<<1, 0>>].released
    /\ milestones[<<1, 0>>].project = 1
    /\ milestones[<<1, 0>>].kwh_target = Target
    /\ milestones[<<1, 0>>].co2_target = Target
    /\ milestones[<<1, 0>>].amount_lamports = 1
    /\ milestones[<<1, 0>>].payee = "payee"
    /\ vault_lamports[1] = 1

\* the totals after the first submission (a part of each target) and after
\* the second one (past both targets)
C20_AfterFirst == projects[1].kwh_total = 1 /\ projects[1].co2_total = 1

C20_AfterSecond ==
    projects[1].kwh_total = 1 + Target /\ projects[1].co2_total = 1 + Target

\* C20: a new project with milestone 0 (two targets, a payout, payee P) and a
\* vault funded with the payout: after a first submit_metrics that leaves both
\* totals below their targets release_milestone fails with
\* MetricThresholdNotMet and changes nothing; after a further submit_metrics
\* that takes both past their targets it succeeds, and the resulting state has
\* vault balance 0, the payee's balance increased by the payout and
\* milestone.released = true.  (1000/50 kWh/CO2, 10 lamports and the deltas
\* 500/20 and 600/40 are scaled to Target, 1, and the deltas 1 and Target.)
C20_EndToEnd ==
    /\ []((C20_Funded /\ C20_AfterFirst)
          => LET c == GovernanceRelease(1, <<1, 0>>, "payee")
             IN  /\ c.err = "MetricThresholdNotMet"
                 /\ ReleaseChangedNothing(c))
    /\ []((C20_Funded /\ C20_AfterSecond)
          => LET c == GovernanceRelease(1, <<1, 0>>, "payee")
             IN  /\ c.err = "Ok"
                 /\ c.vault_lamports[1] = 0
                 /\ c.lamports["payee"] = lamports["payee"] + 1
                 /\ c.milestones[<<1, 0>>].released)
    /\ [][\A g \in {projects[1].governance_authority} :
            (C20_Funded /\ C20_AfterSecond
             /\ ReleaseMilestone(1, <<1, 0>>, "payee", g, TRUE))
            => /\ vault_lamports'[1] = 0
               /\ lamports'["payee"] = lamports["payee"] + 1
               /\ milestones'[<<1, 0>>].released
               /\ projects' = projects
       ]_vars

\* the end of the trace: one funding of the payout, the two submissions, and
\* the release that emptied the vault into the payee's wallet
C20_Witness ==
    /\ total_funded[1] = 1
    /\ C20_AfterSecond
    /\ release_count[<<1, 0>>] = 1
    /\ milestones[<<1, 0>>].released
    /\ vault_lamports[1] = 0
    /\ lamports["payee"] = InitialLamports["payee"] + 1

\* the calls of initialize, create_project, create_milestone and
\* set_project_authority (which emit no event): one that fails hands back
\* every account as it was
C21_SilentCalls ==
    /\ \A a \in PlatformSlot, sg \in BOOLEAN :
          LET c == InitializeCall(a, sg)
          IN  c.err # "Ok" => c.state = state
    /\ \A nl \in NameLens, dl \in DescLens, cr \in CreatorSlot, sg \in BOOLEAN,
          a \in PlatformSlot, g \in Governors, o \in Oracles :
          LET c == CreateProjectCall(nl, dl, cr, sg, a, g, o)
          IN  c.err # "Ok" => c.state = state /\ c.projects = projects
    /\ \A p \in ProjectIds, i \in Indices, amt \in PayoutAmounts, pay \in Payees,
          cr \in CreatorSlot, sg \in BOOLEAN, g \in GovernanceSlot, oc \in BOOLEAN :
          LET c == CreateMilestoneCall(p, i, amt, Target, Target, pay, cr, sg, g, oc)
          IN  c.err # "Ok" => c.projects = projects /\ c.milestones = milestones
    /\ \A p \in ProjectIds, g \in GovernanceSlot, sg \in BOOLEAN, n \in NewGovernors :
          LET c == SetProjectAuthorityCall(p, g, sg, n)
          IN  c.err # "Ok" => c.projects = projects

\* the calls of fund_project, submit_metrics and release_milestone: one that
\* fails hands back every account as it was and no event, one that succeeds
\* emits its event
C21_EventCalls ==
    /\ \A p \in ProjectIds, f \in Wallets, sg \in BOOLEAN, amt \in U64 :
          LET c == FundProjectCall(p, f, sg, amt)
          IN  /\ c.err # "Ok" => FundChangedNothing(c) /\ c.event = NoEvent
              /\ c.err = "Ok" => /\ c.event.name = "ProjectFunded"
                                 /\ c.event.project = p
                                 /\ c.event.key = f
                                 /\ c.event.amount = amt
    /\ \A p \in ProjectIds, o \in OracleSlot, sg \in BOOLEAN, kd \in U64, cd \in U64,
          nr \in Roots \cup {NoRoot} :
          LET c == SubmitMetricsCall(p, o, sg, kd, cd, nr)
          IN  /\ c.err # "Ok" => c.projects = projects /\ c.event = NoEvent
              /\ c.err = "Ok" => /\ c.event.name = "MetricsUpdated"
                                 /\ c.event.project = p
                                 /\ c.event.kwh_total = c.projects[p].kwh_total
                                 /\ c.event.co2_total = c.projects[p].co2_total
    /\ \A p \in ProjectIds, m \in MilestoneKeys, pay \in Wallets, g \in GovernanceSlot,
          sg \in BOOLEAN :
          LET c == ReleaseMilestoneCall(p, m, pay, g, sg)
          IN  /\ c.err # "Ok" => ReleaseChangedNothing(c) /\ c.event = NoEvent
              /\ c.err = "Ok" => /\ c.event.name = "MilestoneReleased"
                                 /\ c.event.project = p
                                 /\ c.event.index = milestones[m].index
                                 /\ c.event.amount = milestones[m].amount_lamports

\* a step that changes something is an instruction that succeeded (each
\* instruction is looked for where the field it alone writes has changed)
C21_ChangedBySuccess ==
    \/ /\ state'.exists # state.exists
       /\ \E a \in Deployers : InitializeCall(a, TRUE).err = "Ok" /\ Initialize(a, TRUE)
    \/ \E nl \in NameLens, dl \in DescLens, cr \in Creators, a \in PlatformSlot,
          g \in Governors, o \in Oracles :
          /\ state'.project_count # state.project_count
          /\ CreateProjectCall(nl, dl, cr, TRUE, a, g, o).err = "Ok"
          /\ CreateProject(nl, dl, cr, TRUE, a, g, o)
    \/ \E p \in ProjectIds, i \in Indices, amt \in PayoutAmounts, pay \in Payees,
          cr \in CreatorSlot, g \in GovernanceNamed, oc \in BOOLEAN :
          /\ milestones'[<<p, i>>].exists # milestones[<<p, i>>].exists
          /\ CreateMilestoneCall(p, i, amt, Target, Target, pay, cr, TRUE, g, oc).err = "Ok"
          /\ CreateMilestone(p, i, amt, Target, Target, pay, cr, TRUE, g, oc)
    \/ \E p \in ProjectIds, f \in Wallets, amt \in FundAmounts :
          /\ total_funded'[p] # total_funded[p]
          /\ FundProjectCall(p, f, TRUE, amt).err = "Ok"
          /\ FundProject(p, f, TRUE, amt)
    \/ \E p \in ProjectIds, o \in OracleSlot, kd \in Deltas, cd \in Deltas,
          nr \in Roots \cup {NoRoot} :
          /\ projects'[p] # projects[p]
          /\ projects'[p].kwh_total = projects[p].kwh_total + kd
          /\ SubmitMetricsCall(p, o, TRUE, kd, cd, nr).err = "Ok"
          /\ SubmitMetrics(p, o, TRUE, kd, cd, nr)
    \/ \E p \in ProjectIds, m \in MilestoneKeys, pay \in Wallets, g \in GovernanceSlot :
          /\ release_count'[m] # release_count[m]
          /\ ReleaseMilestoneCall(p, m, pay, g, TRUE).err = "Ok"
          /\ ReleaseMilestone(p, m, pay, g, TRUE)
    \/ \E p \in ProjectIds, g \in GovernanceSlot, n \in NewGovernors :
          /\ projects'[p].governance_authority # projects[p].governance_authority
          /\ SetProjectAuthorityCall(p, g, TRUE, n).err = "Ok"
          /\ SetProjectAuthority(p, g, TRUE, n)

\* C21: an instruction that fails, with whatever error, leaves the whole
\* state as it was (registry, projects, milestones, vaults, funder and payee
\* balances) and emits no event; ProjectFunded, MetricsUpdated and
\* MilestoneReleased come from instructions that succeed, and only a
\* successful instruction changes anything.
C21_FailuresChangeNothing ==
    /\ [](C21_SilentCalls /\ C21_EventCalls)
    /\ [][escrow_vars' # escrow_vars => C21_ChangedBySuccess]_vars

\* one state in which calls fail after the handler has already written to its
\* accounts (a funding whose transfer went through and whose funded_amount
\* overflows, a metrics update whose kWh fits and whose CO2 overflows) or
\* fail on a check (a milestone of another project, a released milestone, a
\* stranger, a zero amount, a name that is too long)
C21_Witness ==
    \E f \in Wallets :
        /\ Transfer(lamports[f], vault_lamports[1], 1).ok
        /\ FundProjectCall(1, f, TRUE, 1).err = "NumericalOverflow"
        /\ FundProjectCall(1, f, TRUE, 0).err = "InvalidAmount"
        /\ SubmitMetricsCall(2, projects[2].oracle_authority, TRUE, 0, Target, NoRoot).err
              = "NumericalOverflow"
        /\ GovernanceRelease(1, <<2, 0>>, "payee").err = "InvalidMilestone"
        /\ GovernanceRelease(1, <<1, 0>>, "payee").err = "AlreadyReleased"
        /\ ReleaseMilestoneCall(2, <<2, 0>>, "payee", "mallory", TRUE).err = "Unauthorized"
        /\ CreateProjectCall(MaxNameLen + 1, MaxDescLen, "alice", TRUE, "alice", "gov",
                             "oracle").err = "StringTooLong"

\* C22: in a successful release_milestone the wallet that is credited is the
\* payee recorded in the milestone; a release that presents another account
\* as payee does not move the payout to that account.
C22_PaidToRecordedPayee ==
    [][\A m \in MilestoneKeys, w \in Wallets :
          (release_count'[m] # release_count[m] /\ lamports'[w] > lamports[w])
          => w = milestones[m].payee
      ]_vars

\* C23: for every index 0..255 and every prior count, a successful
\* create_milestone(index, ...) leaves num_milestones equal to
\* max(previous num_milestones, index + 1), index = 255 included, and no step
\* makes num_milestones smaller.
C23_NumMilestonesIsMax ==
    /\ [](\A p \in ProjectIds, i \in Indices, amt \in PayoutAmounts, pay \in Payees :
            \A oc \in BuildsFor(i) :
               LET c == CreateMilestoneCall(p, i, amt, Target, Target, pay,
                                            projects[p].creator, TRUE,
                                            projects[p].governance_authority, oc)
                   before == projects[p].num_milestones
               IN  c.err = "Ok"
                   => c.projects[p].num_milestones
                         = (IF i + 1 > before THEN i + 1 ELSE before))
    /\ [][\A p \in ProjectIds :
            projects'[p].num_milestones >= projects[p].num_milestones]_vars

\* the payouts of the released milestones of project p, read from the
\* milestone accounts
C24_PaidOut(p) ==
    LET paid(i) == IF milestones[<<p, i>>].released
                   THEN milestones[<<p, i>>].amount_lamports
                   ELSE 0
    IN  paid(0) + paid(1) + paid(U8Max)

\* in every state the vault holds what the successful fund_project calls
\* brought in less the payouts of the released milestones, and a due release
\* fails with InsufficientFunds exactly while the vault is short of its payout
C24_Ledger ==
    /\ \A p \in ProjectIds :
          /\ vault_lamports[p] >= 0
          /\ vault_lamports[p] = total_funded[p] - C24_PaidOut(p)
    /\ \A p \in ProjectIds, m \in MilestoneKeys, pay \in Wallets :
          DueForRelease(p, m)
          => /\ vault_lamports[p] < milestones[m].amount_lamports
                => GovernanceRelease(p, m, pay).err = "InsufficientFunds"
             /\ (/\ vault_lamports[p] >= milestones[m].amount_lamports
                 /\ lamports[pay] + milestones[m].amount_lamports <= U64Max)
                => GovernanceRelease(p, m, pay).err = "Ok"

\* of two due milestones that the vault cannot pay together, the one released
\* first is paid and the other is then refused with InsufficientFunds
C24_FirstWins ==
    release_count' # release_count
    => \A p \in ProjectIds, i1 \in Indices, i2 \in Indices :
          \A m1 \in {<<p, i1>>}, m2 \in {<<p, i2>>} :
             (/\ release_count'[m1] # release_count[m1]
              /\ m1 # m2
              /\ DueForRelease(p, m1) /\ DueForRelease(p, m2)
              /\ vault_lamports[p] < milestones[m1].amount_lamports
                                        + milestones[m2].amount_lamports)
             => /\ milestones'[m1].released
                /\ vault_lamports'[p]
                      = vault_lamports[p] - milestones[m1].amount_lamports
                /\ ~milestones'[m2].released
                /\ \A pay \in Wallets :
                      (GovernanceRelease(p, m2, pay).err)' = "InsufficientFunds"

\* a due milestone that the vault could not pay becomes payable only by a
\* successful fund_project
C24_UntilFunded ==
    vault_lamports' # vault_lamports
    => \A p \in ProjectIds, i \in Indices :
          \A m \in {<<p, i>>} :
             (/\ vault_lamports'[p] > vault_lamports[p]
              /\ DueForRelease(p, m)
              /\ vault_lamports[p] < milestones[m].amount_lamports
              /\ vault_lamports'[p] >= milestones[m].amount_lamports)
             => /\ total_funded'[p] > total_funded[p]
                /\ vault_lamports'[p] - vault_lamports[p]
                      = total_funded'[p] - total_funded[p]
                /\ \A pay \in Wallets :
                      lamports'[pay] + milestones[m].amount_lamports <= U64Max
                      => (GovernanceRelease(p, m, pay).err)' = "Ok"

\* C24: under every interleaving of fund_project and release_milestone calls
\* on the milestones of a project, the vault balance equals its balance at
\* creation plus the successful funding amounts minus the payouts of the
\* released milestones and is never negative; when two unreleased milestones
\* meet their thresholds and the vault covers only one payout, the release that
\* runs first succeeds (its payee's balance taking the credit) and the other
\* fails with InsufficientFunds until further funding arrives.
C24_VaultUnderInterleaving ==
    /\ []C24_Ledger
    /\ [][C24_FirstWins /\ C24_UntilFunded]_vars

\* funding and a release have both happened on project 1, the released
\* milestone was paid from a vault that covered either payout but not both,
\* and the other milestone is due and refused with InsufficientFunds
C24_Witness ==
    \E m1 \in MilestoneKeys, m2 \in MilestoneKeys :
        /\ m1[1] = 1 /\ m2[1] = 1 /\ m1 # m2
        /\ release_count[m1] = 1
        /\ DueForRelease(1, m2)
        /\ total_funded[1] > vault_lamports[1]
        /\ vault_lamports[1] > 0
        /\ vault_lamports[1] < milestones[m2].amount_lamports
        /\ vault_lamports[1] + milestones[m1].amount_lamports
              >= milestones[m2].amount_lamports
        /\ GovernanceRelease(1, m2, "alice").err = "InsufficientFunds"
        /\ FundProjectCall(1, "payee", TRUE, 1).err = "Ok"

====
